---- MODULE Spec2Model ----
(***************************************************************************)
(* tiny-logger (tiny-logger.h): the process-wide Logger configuration,     *)
(* the prompt builder, the placeholder formatter and the two logging       *)
(* entry points, with std::cout as a sequence of characters.               *)
(*                                                                         *)
(* A std::string is a sequence of one-character strings; the character     *)
(* 0x1b of the ANSI colour codes is written "ESC" and '\n' is "\n".        *)
(***************************************************************************)
EXTENDS Integers, Sequences, FiniteSets, TLC

VARIABLES m_options, out, lastCall, lastInit, ncalls

vars == <<m_options, out, lastCall, lastInit, ncalls>>

(***************************************************************************)
(* Bounds of the model.                                                    *)
(***************************************************************************)
MaxCalls == 3
MaxPromptPieces == 2
MaxFmtPieces == 3
MaxArgs == 2

(***************************************************************************)
(* std::string operations used by the logger.                              *)
(***************************************************************************)
npos == -1

Min(a, b) == IF a <= b THEN a ELSE b

\* s.substr(pos): the characters from 0-based index pos to the end
substr1(s, pos) == SubSeq(s, pos + 1, Len(s))

\* s.substr(pos, n): n characters from 0-based index pos
substr2(s, pos, n) == SubSeq(s, pos + 1, Min(pos + n, Len(s)))

\* s.find(pat): 0-based index of the first occurrence of pat, or npos
find(s, pat) ==
    LET hits == {i \in 0..(Len(s) - Len(pat)) : SubSeq(s, i + 1, i + Len(pat)) = pat}
    IN IF hits = {} THEN npos ELSE CHOOSE i \in hits : \A j \in hits : i <= j

\* s.find(c) for a single character c
findChar(s, c) == find(s, <<c>>)

\* s.replace(pos, len, str)
replace(s, pos, len, str) == SubSeq(s, 1, pos) \o str \o SubSeq(s, pos + len + 1, Len(s))

(***************************************************************************)
(* Severities, their display strings, the options record.                  *)
(***************************************************************************)
FATAL == 0
ERROR == 1
WARNING == 2
INFO == 3
TRACE == 4

Severity == {FATAL, ERROR, WARNING, INFO, TRACE}

m_severityStrings ==
    << <<"ESC","[","1",";","3","1","m","F","A","T","A","L","ESC","[","0","m">>,
       <<"ESC","[","3","1","m","E","R","R","O","R","ESC","[","0","m">>,
       <<"ESC","[","3","3","m","W","A","R","N","I","N","G","ESC","[","0","m">>,
       <<"ESC","[","3","4","m","I","N","F","O","ESC","[","0","m">>,
       <<"T","R","A","C","E">> >>

\* Logger::Options with its member initialisers
Options == [prompt |-> <<>>, formatChar |-> "@"]

\* the default argument of initialise
InitialiseDefault == [prompt |-> <<>>, formatChar |-> "@"]

REPLACE_LEN == 5
REPLACE_STR == <<"{","s","e","v","}">>

endl == <<"\n">>

(***************************************************************************)
(* Arguments: the values a caller passes, and operator<< on each.          *)
(***************************************************************************)
IntV(n) == [t |-> "int", i |-> n, b |-> FALSE, s |-> <<>>]
BoolV(x) == [t |-> "bool", i |-> 0, b |-> x, s |-> <<>>]
TextV(x) == [t |-> "text", i |-> 0, b |-> FALSE, s |-> x]
LoggableV(x) == [t |-> "loggable", i |-> 0, b |-> FALSE, s |-> x]

Digit(d) == <<"0","1","2","3","4","5","6","7","8","9">>[d + 1]

RECURSIVE Decimal(_)
Decimal(n) ==
    IF n < 0 THEN <<"-">> \o Decimal(0 - n)
    ELSE IF n < 10 THEN <<Digit(n)>>
    ELSE Decimal(n \div 10) \o <<Digit(n % 10)>>

\* Loggable::toString of a derived class
toString(v) == v.s

\* operator<<(std::ostream&, const Loggable&)
LoggableInsert(v) == toString(v)

\* Render with std::boolalpha set on the stream
Render_boolalpha(v) ==
    CASE v.t = "int" -> Decimal(v.i)
      [] v.t = "bool" -> IF v.b THEN <<"t","r","u","e">> ELSE <<"f","a","l","s","e">>
      [] v.t = "text" -> v.s
      [] v.t = "loggable" -> LoggableInsert(v)

\* std::cout << next, with the stream's formatting flags as constructed
\* (no boolalpha, decimal)
Render(v) ==
    CASE v.t = "int" -> Decimal(v.i)
      [] v.t = "bool" -> IF v.b THEN <<"1">> ELSE <<"0">>
      [] v.t = "text" -> v.s
      [] v.t = "loggable" -> LoggableInsert(v)

(***************************************************************************)
(* Helper methods of Logger.                                               *)
(***************************************************************************)
\* s.find_first_of(set): 0-based index of the first character of s that is in set
find_first_of(s, set) ==
    LET hits == {i \in 0..(Len(s) - 1) : \E k \in 1..Len(set) : s[i + 1] = set[k]}
    IN IF hits = {} THEN npos ELSE CHOOSE i \in hits : \A j \in hits : i <= j

\* m_preparePrompt with the length test written <=
m_preparePrompt_le(sev) ==
    IF Len(m_options.prompt) <= REPLACE_LEN THEN m_options.prompt
    ELSE LET pos == find(m_options.prompt, REPLACE_STR)
         IN IF pos = npos THEN m_options.prompt
            ELSE replace(m_options.prompt, pos, REPLACE_LEN, m_severityStrings[sev + 1])

\* m_preparePrompt searching with find_first_of instead of find
m_preparePrompt_firstOf(sev) ==
    IF Len(m_options.prompt) < REPLACE_LEN THEN m_options.prompt
    ELSE LET pos == find_first_of(m_options.prompt, REPLACE_STR)
         IN IF pos = npos THEN m_options.prompt
            ELSE replace(m_options.prompt, pos, REPLACE_LEN, m_severityStrings[sev + 1])

m_preparePrompt(sev) ==
    IF Len(m_options.prompt) < REPLACE_LEN THEN m_options.prompt
    ELSE LET pos == find(m_options.prompt, REPLACE_STR)
         IN IF pos = npos THEN m_options.prompt
            ELSE replace(m_options.prompt, pos, REPLACE_LEN, m_severityStrings[sev + 1])

\* s.rfind(c): 0-based index of the last occurrence of c, or npos
rfindChar(s, c) ==
    LET hits == {i \in 0..(Len(s) - 1) : s[i + 1] = c}
    IN IF hits = {} THEN npos ELSE CHOOSE i \in hits : \A j \in hits : j <= i

\* m_findNextFormatCharacter searching from the end
m_findNextFormatCharacter_rfind(buffer) ==
    LET pos == rfindChar(buffer, m_options.formatChar)
    IN IF pos # npos THEN substr2(buffer, 0, pos) ELSE buffer

m_findNextFormatCharacter(buffer) ==
    LET pos == findChar(buffer, m_options.formatChar)
    IN IF pos # npos THEN substr2(buffer, 0, pos) ELSE buffer

\* a base case that drops what is left of the buffer
m_processArgumentsBase_silent(buffer) == [text |-> <<>>, used |-> 0]

\* Base case: emits the buffer.  text is what is written to std::cout, used
\* counts the executions of "std::cout << next".
m_processArgumentsBase(buffer) == [text |-> buffer, used |-> 0]

RECURSIVE m_processArguments(_, _)
m_processArguments(buffer, args) ==
    IF args = <<>> THEN m_processArgumentsBase(buffer)
    ELSE LET trimmed == m_findNextFormatCharacter(buffer)
         IN IF Len(trimmed) = Len(buffer) THEN [text |-> trimmed, used |-> 0]
            ELSE LET rest == m_processArguments(substr1(buffer, Len(trimmed) + 1), Tail(args))
                 IN [text |-> trimmed \o Render(Head(args)) \o rest.text,
                     used |-> 1 + rest.used]

\* the template logValue builds for len trailing arguments
RECURSIVE logValueFormat(_)
logValueFormat(len) ==
    IF len = 0 THEN <<"@">> ELSE <<"@", " ">> \o logValueFormat(len - 1)

(***************************************************************************)
(* The calls the model makes: configurations, templates, argument lists.   *)
(***************************************************************************)
RECURSIVE Strs(_, _)
Strs(P, n) ==
    IF n = 0 THEN {<<>>}
    ELSE LET S == Strs(P, n - 1) IN S \cup {s \o p : s \in S, p \in P}

RECURSIVE Lists(_, _)
Lists(V, n) ==
    IF n = 0 THEN {<<>>}
    ELSE LET S == Lists(V, n - 1) IN S \cup {Append(l, v) : l \in S, v \in V}

FormatChars == {"@", "%"}

\* the prompt of the example program: " * tiny ({sev}) | "
PROMPT == <<" ","*"," ","t","i","n","y"," ","(">> \o REPLACE_STR \o <<")"," ","|"," ">>

\* the documented prompt "{sev}-{sev}"
SevDashSev == REPLACE_STR \o <<"-">> \o REPLACE_STR

PromptPieces == {REPLACE_STR, <<"{","s","e">>, <<"@">>, <<"p">>}
Prompts == Strs(PromptPieces, MaxPromptPieces) \cup {PROMPT, SevDashSev}

FmtPieces == {<<"@">>, <<"%">>, <<"a">>, REPLACE_STR}

\* templates of the example program, the README and the documented examples
WowFmt == <<"@",","," ","@",","," ","@">>
AbcFmt == <<"a","@","b","@","c">>
PlainFmt == <<"n","o"," ","p","l","a","c","e","h","o","l","d","e","r","s">>
Templates == Strs(FmtPieces, MaxFmtPieces) \cup {WowFmt, AbcFmt, PlainFmt}

Wow == <<"'","W","O","W","!","'">>
WowArgs == <<IntV(42), TextV(Wow), BoolV(FALSE)>>
XYArgs == <<TextV(<<"X">>), TextV(<<"Y">>)>>
OneTwoThree == <<IntV(1), IntV(2), IntV(3)>>
HelloWorld == <<TextV(<<"H","e","l","l","o">>), TextV(<<"W","o","r","l","d","!">>)>>

Values == {IntV(42), BoolV(FALSE), TextV(<<"@", "%">>), LoggableV(REPLACE_STR)}
ArgLists == Lists(Values, MaxArgs) \cup {WowArgs, XYArgs}
ValueLists == (Lists(Values, MaxArgs) \ {<<>>}) \cup {OneTwoThree, HelloWorld}

\* the smaller sets used where calls are made in sequence
SeqConfigs == {[prompt |-> REPLACE_STR \o <<":">>, formatChar |-> "%"],
               [prompt |-> <<"@">>, formatChar |-> "@"],
               [prompt |-> <<>>, formatChar |-> "@"]}
SeqSeverities == {WARNING, TRACE}
SeqTemplates == {<<"a", "@", "%">>, <<"@">> \o REPLACE_STR}
SeqArgLists == {<<>>, <<IntV(42)>>, <<TextV(<<"@", "%">>), BoolV(FALSE)>>}
SeqValueLists == {<<IntV(1)>>, <<IntV(1), BoolV(TRUE)>>}

NoCall == [op |-> "none", sev |-> FATAL, fmt |-> <<>>, args |-> <<>>,
           opts |-> Options, before |-> Options, pre |-> 0, msg |-> <<>>, used |-> 0]

(***************************************************************************)
(* Operations.                                                             *)
(***************************************************************************)
\* initialise assigning the prompt alone
initialise_promptOnly(opts) ==
    /\ m_options' = [m_options EXCEPT !.prompt = opts.prompt]
    /\ lastCall' = [NoCall EXCEPT !.op = "initialise", !.opts = opts,
                                  !.before = m_options, !.pre = Len(out)]
    /\ lastInit' = [called |-> TRUE, opts |-> opts, n |-> lastInit.n + 1,
                    nondefault |-> lastInit.nondefault \/ opts # InitialiseDefault]
    /\ ncalls' = ncalls + 1
    /\ UNCHANGED out

\* initialise keeping the old prompt when the new one is empty
initialise_keepPrompt(opts) ==
    /\ m_options' = [prompt |-> IF opts.prompt = <<>> THEN m_options.prompt ELSE opts.prompt,
                     formatChar |-> opts.formatChar]
    /\ lastCall' = [NoCall EXCEPT !.op = "initialise", !.opts = opts,
                                  !.before = m_options, !.pre = Len(out)]
    /\ lastInit' = [called |-> TRUE, opts |-> opts, n |-> lastInit.n + 1,
                    nondefault |-> lastInit.nondefault \/ opts # InitialiseDefault]
    /\ ncalls' = ncalls + 1
    /\ UNCHANGED out

\* static void initialise(const Options& opts)
initialise(opts) ==
    /\ m_options' = opts
    /\ lastCall' = [NoCall EXCEPT !.op = "initialise", !.opts = opts,
                                  !.before = m_options, !.pre = Len(out)]
    /\ lastInit' = [called |-> TRUE, opts |-> opts, n |-> lastInit.n + 1,
                    nondefault |-> lastInit.nondefault \/ opts # InitialiseDefault]
    /\ ncalls' = ncalls + 1
    /\ UNCHANGED out

\* log without the closing std::endl
log_noEndl(sev, fmt, args) ==
    LET prompt == m_preparePrompt(sev)
        done == m_processArguments(fmt, args)
    IN /\ out' = out \o prompt \o done.text
       /\ lastCall' = [NoCall EXCEPT !.op = "log", !.sev = sev, !.fmt = fmt, !.args = args,
                                     !.opts = m_options, !.before = m_options,
                                     !.pre = Len(out), !.msg = done.text, !.used = done.used]
       /\ ncalls' = ncalls + 1
       /\ UNCHANGED <<m_options, lastInit>>

\* log putting the prompt into the buffer it hands to m_processArguments
log_promptInBuffer(sev, fmt, args) ==
    LET done == m_processArguments(m_preparePrompt(sev) \o fmt, args)
    IN /\ out' = out \o done.text \o endl
       /\ lastCall' = [NoCall EXCEPT !.op = "log", !.sev = sev, !.fmt = fmt, !.args = args,
                                     !.opts = m_options, !.before = m_options,
                                     !.pre = Len(out), !.msg = done.text, !.used = done.used]
       /\ ncalls' = ncalls + 1
       /\ UNCHANGED <<m_options, lastInit>>

\* static void log(const Severity& sev, const std::string& fmt, Args&&... args)
log(sev, fmt, args) ==
    LET prompt == m_preparePrompt(sev)
        done == m_processArguments(fmt, args)
    IN /\ out' = out \o prompt \o done.text \o endl
       /\ lastCall' = [NoCall EXCEPT !.op = "log", !.sev = sev, !.fmt = fmt, !.args = args,
                                     !.opts = m_options, !.before = m_options,
                                     !.pre = Len(out), !.msg = done.text, !.used = done.used]
       /\ ncalls' = ncalls + 1
       /\ UNCHANGED <<m_options, lastInit>>

\* static void logValue(const T& initial, Args&&... args)
logValue(initial, args) ==
    LET format == logValueFormat(Len(args))
        done == m_processArguments(format, <<initial>> \o args)
    IN /\ out' = out \o done.text \o endl
       /\ lastCall' = [NoCall EXCEPT !.op = "logValue", !.fmt = format,
                                     !.args = <<initial>> \o args,
                                     !.opts = m_options, !.before = m_options,
                                     !.pre = Len(out), !.msg = done.text, !.used = done.used]
       /\ ncalls' = ncalls + 1
       /\ UNCHANGED <<m_options, lastInit>>

(***************************************************************************)
(* Spec: any sequence of initialise, log and logValue calls, from the      *)
(* state after static initialisation.                                      *)
(***************************************************************************)
Init ==
    /\ m_options = Options
    /\ out = <<>>
    /\ lastCall = NoCall
    /\ lastInit = [called |-> FALSE, opts |-> Options, n |-> 0, nondefault |-> FALSE]
    /\ ncalls = 0

Initialise == ncalls < MaxCalls /\ \E opts \in SeqConfigs : initialise(opts)

InitialiseNoArgument == ncalls < MaxCalls /\ initialise(InitialiseDefault)

Log ==
    /\ ncalls < MaxCalls
    /\ \E sev \in SeqSeverities, fmt \in SeqTemplates, args \in SeqArgLists : log(sev, fmt, args)

LogValue ==
    /\ ncalls < MaxCalls
    /\ \E l \in SeqValueLists : logValue(Head(l), Tail(l))

Next == Initialise \/ InitialiseNoArgument \/ Log \/ LogValue

Spec == Init /\ [][Next]_vars

(***************************************************************************)
(* SpecPrompt: one log call under every prompt template, every severity.   *)
(***************************************************************************)
InitPrompt ==
    /\ m_options \in [prompt : Prompts, formatChar : FormatChars]
    /\ out = <<>>
    /\ lastCall = NoCall
    /\ lastInit = [called |-> TRUE, opts |-> m_options, n |-> 1,
                   nondefault |-> m_options # InitialiseDefault]
    /\ ncalls = 0

LogPrompt ==
    /\ ncalls = 0
    /\ \E sev \in Severity, fmt \in SeqTemplates, args \in SeqArgLists : log(sev, fmt, args)

NextPrompt == LogPrompt

SpecPrompt == InitPrompt /\ [][NextPrompt]_vars

(***************************************************************************)
(* SpecFormat: one log or logValue call over every template and argument   *)
(* list, under either placeholder character.                               *)
(***************************************************************************)
InitFormat ==
    /\ m_options \in [prompt : {<<>>, PROMPT, <<"@">>}, formatChar : FormatChars]
    /\ out = <<>>
    /\ lastCall = NoCall
    /\ lastInit = [called |-> TRUE, opts |-> m_options, n |-> 1,
                   nondefault |-> m_options # InitialiseDefault]
    /\ ncalls = 0

LogFormat ==
    /\ ncalls = 0
    /\ \E sev \in SeqSeverities, fmt \in Templates, args \in ArgLists : log(sev, fmt, args)

LogValueFormat ==
    /\ ncalls = 0
    /\ \E l \in ValueLists : logValue(Head(l), Tail(l))

NextFormat == LogFormat \/ LogValueFormat

SpecFormat == InitFormat /\ [][NextFormat]_vars

(***************************************************************************)
(* What the properties below talk about.                                   *)
(***************************************************************************)
\* the configuration of the most recent initialise call, or the documented
\* default (empty prompt, placeholder '@') if there was none
Cfg == IF lastInit.called THEN lastInit.opts ELSE [prompt |-> <<>>, formatChar |-> "@"]

\* what the last call appended to the stream
Line == SubSeq(out, lastCall.pre + 1, Len(out))

IsLog == lastCall.op = "log"
IsLogValue == lastCall.op = "logValue"

Contains(s, pat) == \E i \in 1..(Len(s) - Len(pat) + 1) : SubSeq(s, i, i + Len(pat) - 1) = pat

Count(s, c) == Cardinality({i \in 1..Len(s) : s[i] = c})

\* position of the n-th occurrence of c in s (0 for n = 0)
NthPos(s, c, n) ==
    IF n = 0 THEN 0
    ELSE CHOOSE i \in 1..Len(s) :
            s[i] = c /\ Cardinality({j \in 1..i : s[j] = c}) = n

Renderings(args) == [i \in 1..Len(args) |-> Render(args[i])]

\* the first k placeholders of fmt, each with the literal text before it,
\* replaced by the first k renderings
RECURSIVE SubstUpTo(_, _, _, _)
SubstUpTo(fmt, rend, c, k) ==
    IF k = 0 THEN <<>>
    ELSE SubstUpTo(fmt, rend, c, k - 1)
            \o SubSeq(fmt, NthPos(fmt, c, k - 1) + 1, NthPos(fmt, c, k) - 1)
            \o rend[k]

\* fmt with its i-th placeholder replaced by the i-th rendering, for i up to
\* min(placeholders, renderings), the rest of fmt verbatim
Substituted(fmt, rend, c) ==
    LET k == Min(Count(fmt, c), Len(rend))
    IN SubstUpTo(fmt, rend, c, k) \o SubSeq(fmt, NthPos(fmt, c, k) + 1, Len(fmt))

\* prompt with the first "{sev}" replaced by str
FirstReplaced(prompt, str) ==
    LET p == CHOOSE i \in 1..Len(prompt) :
                /\ SubSeq(prompt, i, i + 4) = REPLACE_STR
                /\ \A j \in 1..(i - 1) : SubSeq(prompt, j, j + 4) # REPLACE_STR
    IN SubSeq(prompt, 1, p - 1) \o str \o SubSeq(prompt, p + 5, Len(prompt))

\* the prompt buildPrompt is specified to return
BuiltPrompt(prompt, sev) ==
    IF Contains(prompt, REPLACE_STR) THEN FirstReplaced(prompt, m_severityStrings[sev + 1])
    ELSE prompt

RECURSIVE SumLen(_, _)
SumLen(rend, k) == IF k = 0 THEN 0 ELSE SumLen(rend, k - 1) + Len(rend[k])

RECURSIVE JoinSpaces(_)
JoinSpaces(rend) ==
    IF Len(rend) = 0 THEN <<>>
    ELSE IF Len(rend) = 1 THEN rend[1]
    ELSE rend[1] \o <<" ">> \o JoinSpaces(Tail(rend))

\* the line a log or logValue call is to append under configuration cfg
ExpectedLine(cfg, call) ==
    IF call.op = "log"
    THEN BuiltPrompt(cfg.prompt, call.sev)
            \o Substituted(call.fmt, Renderings(call.args), cfg.formatChar) \o endl
    ELSE Substituted(call.fmt, Renderings(call.args), cfg.formatChar) \o endl

(***************************************************************************)
(* Properties.                                                             *)
(***************************************************************************)

\* C1: the text the placeholder formatter emits for a log call is the
\* template with its i-th placeholder replaced by the rendering of the i-th
\* argument, for i up to min(placeholders, arguments); literal text is kept
\* verbatim and in order, and surplus arguments produce no output.
C1_FormatSubstitutes ==
    IsLog => lastCall.msg = Substituted(lastCall.fmt, Renderings(lastCall.args), Cfg.formatChar)

C1_Witness ==
    /\ IsLog /\ Cfg.formatChar = "@"
    /\ lastCall.fmt = AbcFmt /\ lastCall.args = XYArgs
    /\ lastCall.msg = <<"a", "X", "b", "Y", "c">>

C1_WitnessSurplus ==
    /\ IsLog /\ lastCall.fmt = PlainFmt /\ lastCall.args = XYArgs
    /\ lastCall.msg = PlainFmt

\* C2 (as claimed): under every configuration, logValue(initial, args...)
\* emits the renderings of initial and of each trailing argument, in order,
\* joined by single spaces, followed by a line terminator.
C2_LogValueJoinsWithSpaces ==
    IsLogValue => Line = JoinSpaces(Renderings(lastCall.args)) \o endl

\* C2 (as claimed): the template logValue synthesizes is made of the
\* configured placeholder character.
C2_TemplateOfConfiguredPlaceholder ==
    IsLogValue =>
        /\ Count(lastCall.fmt, Cfg.formatChar) = Len(lastCall.args)
        /\ Len(lastCall.fmt) = 2 * Len(lastCall.args) - 1

\* C3 (as claimed): log(WARNING, "@, @, @", 42, "'WOW!'", false) with
\* placeholder '@' produces the rendered WARNING prompt followed by
\* "42, 'WOW!', false".
C3_WowLineFalse ==
    (IsLog /\ lastCall.sev = WARNING /\ lastCall.fmt = WowFmt /\ lastCall.args = WowArgs
        /\ Cfg.formatChar = "@")
    => Line = BuiltPrompt(Cfg.prompt, WARNING)
                \o <<"4","2",","," ">> \o Wow \o <<","," ","f","a","l","s","e">> \o endl

\* C3 (amended): the same call produces the rendered WARNING prompt followed
\* by "42, 'WOW!', 0": the integer as "42", the text unchanged, and the
\* boolean false as "0", the stream's default form of a bool.
C3_WowLineZero ==
    (IsLog /\ lastCall.sev = WARNING /\ lastCall.fmt = WowFmt /\ lastCall.args = WowArgs
        /\ Cfg.formatChar = "@")
    => Line = BuiltPrompt(Cfg.prompt, WARNING)
                \o <<"4","2",","," ">> \o Wow \o <<","," ","0">> \o endl

C3_Witness ==
    /\ IsLog /\ lastCall.sev = WARNING /\ lastCall.fmt = WowFmt /\ lastCall.args = WowArgs
    /\ Cfg.formatChar = "@" /\ Cfg.prompt = PROMPT
    /\ lastCall.used = 3

\* C4: when the prompt template contains "{sev}", the prompt a log call
\* emits is the template with the first "{sev}" replaced by the severity's
\* display string and every other character, later "{sev}" included, kept.
C4_FirstMarkerReplaced ==
    (IsLog /\ Contains(Cfg.prompt, REPLACE_STR))
    => Line = FirstReplaced(Cfg.prompt, m_severityStrings[lastCall.sev + 1])
                \o lastCall.msg \o endl

C4_Witness ==
    /\ IsLog /\ lastCall.sev = INFO /\ Cfg.prompt = SevDashSev
    /\ SubSeq(Line, 1, 19) = m_severityStrings[INFO + 1] \o <<"-">> \o REPLACE_STR

C4_WitnessExact ==
    /\ IsLog /\ lastCall.sev = TRACE /\ Cfg.prompt = REPLACE_STR
    /\ SubSeq(Line, 1, 5) = <<"T","R","A","C","E">>

\* C5: when the prompt template does not contain "{sev}" (every template
\* shorter than 5 characters and the empty prompt included), the prompt a
\* log call emits is the template itself, whatever the severity.
C5_NoMarkerUnchanged ==
    (IsLog /\ ~Contains(Cfg.prompt, REPLACE_STR))
    => Line = Cfg.prompt \o lastCall.msg \o endl

C5_Witness ==
    /\ IsLog /\ lastCall.sev = ERROR
    /\ Cfg.prompt = <<"{","s","e","{","s","e">>
    /\ SubSeq(Line, 1, 6) = Cfg.prompt

\* C6: every log or logValue call formats with the configuration of the
\* most recent initialise call (the default if there was none): the
\* configuration in force is that one, log and logValue leave it alone, and
\* the line emitted is the one that configuration gives.
C6_LastInitialiseWins ==
    /\ m_options = Cfg
    /\ (IsLog \/ IsLogValue) =>
        /\ lastCall.before = Cfg
        /\ Line = ExpectedLine(Cfg, lastCall)

C6_Witness ==
    /\ IsLog /\ lastInit.n >= 2 /\ Cfg.formatChar = "%"
    /\ lastCall.used >= 1

\* C7: after initialise with the default configuration, whatever was
\* configured before, a log or logValue call emits what it emits in a
\* process that never called initialise; and initialise with the
\* configuration already in force changes nothing.
C7_DefaultRestores ==
    /\ ((IsLog \/ IsLogValue) /\ lastInit.called
            /\ lastInit.opts = [prompt |-> <<>>, formatChar |-> "@"])
        => Line = ExpectedLine(Options, lastCall)
    /\ (lastCall.op = "initialise" /\ lastCall.opts = lastCall.before)
        => m_options = lastCall.before

C7_Witness ==
    /\ IsLog /\ lastInit.nondefault /\ lastInit.n >= 2
    /\ lastInit.opts = [prompt |-> <<>>, formatChar |-> "@"]
    /\ lastCall.used >= 1

\* C8: each log call appends the built prompt, then the formatted message,
\* then exactly one line terminator and nothing after it; each logValue call
\* appends its message and one line terminator; initialise appends nothing;
\* so the stream is the per-call outputs in call order.
C8_Step ==
    /\ lastCall'.op = "log" => out' = out \o (m_preparePrompt(lastCall.sev))' \o lastCall'.msg \o endl
    /\ lastCall'.op = "logValue" => out' = out \o lastCall'.msg \o endl
    /\ lastCall'.op = "initialise" => out' = out
    /\ Count(out', "\n") = Count(out, "\n")
            + (IF lastCall'.op \in {"log", "logValue"} THEN 1 ELSE 0)

C8_StreamAppends == [][C8_Step]_vars

C8_Witness ==
    /\ IsLog /\ ncalls = 3 /\ Count(out, "\n") = 2
    /\ lastCall.pre > 0 /\ Len(lastCall.msg) > 0
    /\ Cfg.prompt # <<>>

\* C9: when the template holds more placeholders than there are arguments
\* (no arguments included), every argument is substituted and the whole
\* rest of the template after the last substituted placeholder, remaining
\* placeholder characters included, is emitted verbatim.
C9_RestVerbatim ==
    (IsLog /\ Count(lastCall.fmt, Cfg.formatChar) > Len(lastCall.args))
    => LET n == Len(lastCall.args)
           p == NthPos(lastCall.fmt, Cfg.formatChar, n)
           rest == SubSeq(lastCall.fmt, p + 1, Len(lastCall.fmt))
           msg == lastCall.msg
       IN /\ lastCall.used = n
          /\ Len(msg) = (p - n) + SumLen(Renderings(lastCall.args), n) + Len(rest)
          /\ SubSeq(msg, Len(msg) - Len(rest) + 1, Len(msg)) = rest
          /\ Count(rest, Cfg.formatChar) = Count(lastCall.fmt, Cfg.formatChar) - n
          /\ Line[Len(Line)] = "\n"

C9_Witness ==
    /\ IsLog /\ Len(lastCall.args) = 1
    /\ Count(lastCall.fmt, Cfg.formatChar) = 3
    /\ lastCall.used = 1

C9_WitnessNoArguments ==
    /\ IsLog /\ lastCall.args = <<>>
    /\ Count(lastCall.fmt, Cfg.formatChar) = 2
    /\ lastCall.msg = lastCall.fmt

\* C10: only the characters of the caller's template are substituted: a
\* placeholder in the rendered prompt or in an argument's rendering is
\* emitted as it is and consumes no argument, and a "{sev}" in the template
\* or in an argument's rendering is never replaced by a severity string.
C10_OnlyTemplateSubstituted ==
    IsLog =>
        LET prompt == BuiltPrompt(Cfg.prompt, lastCall.sev)
            rend == Renderings(lastCall.args)
            msg == SubSeq(Line, Len(prompt) + 1, Len(Line) - 1)
        IN /\ SubSeq(Line, 1, Len(prompt)) = prompt
           /\ lastCall.used = Min(Count(lastCall.fmt, Cfg.formatChar), Len(lastCall.args))
           /\ Len(msg) = Len(lastCall.fmt) - lastCall.used + SumLen(rend, lastCall.used)
           /\ \A sev \in Severity : ~Contains(msg, m_severityStrings[sev + 1])
           /\ Count(msg, "ESC") = 0
           /\ \A i \in 1..lastCall.used : Contains(msg, rend[i])

C10_Witness ==
    /\ IsLog /\ Cfg.formatChar = "@"
    /\ Contains(Cfg.prompt, <<"@">>)
    /\ Contains(lastCall.fmt, REPLACE_STR)
    /\ lastCall.args = <<TextV(<<"@", "%">>), LoggableV(REPLACE_STR)>>
    /\ lastCall.used = 2

====
